---- MODULE Spec2Model ----
(***************************************************************************)
(* A model of wordsworth's spell checker (src/lib/spell_checker.js).       *)
(*                                                                         *)
(* Strings are sequences of UTF-16 code units (integers), so that JS's     *)
(* string comparison, slicing and the regular expressions of the source    *)
(* are modelled by what they do.  The dictionary `dict` and the            *)
(* `probabilityModel` are the two module-level objects of the source;      *)
(* a SpellChecker instance has no fields of its own.                       *)
(***************************************************************************)
EXTENDS Integers, Sequences, FiniteSets, TLC

\* ------------------------------------------------------------------ bounds

\* Words one length bucket may hold before addWord is no longer called.
MaxBucketWords == 3
\* Lines of the seed file and of the training file handed to initialize.
MaxSeedLines == 2
MaxTrainLines == 1

\* Two SpellChecker instances, each obtained from its own getInstance() call.
Instances == {"sp1", "sp2"}

\* ------------------------------------------------------------------ inputs
\* Code units used below: 13 CR, 32 space, 45 '-', 46 '.', 51 '3',
\* 65 'A', 66 'B', 97 'a', 98 'b'.

\* Lines given to addWord:  "a"  "b"  "ab"  "ba"  ""  "b\r"
SeedLines ==
    { <<97>>, <<98>>, <<97, 98>>, <<98, 97>>, <<>>, <<98, 13>> }

\* Texts given to train:  "a"  "b"  "a a"  "A-ba."  ""
TrainTexts ==
    { <<97>>, <<98>>, <<97, 32, 97>>, <<65, 45, 98, 97, 46>>, <<>> }

\* Words given to exists and suggest:  ""  "a"  "b"  "aa"  "ab"  "ba"
QueryWords ==
    { <<>>, <<97>>, <<98>>, <<97, 97>>, <<97, 98>>, <<98, 97>> }

\* Sentences given to analyze:  "a"  "ab ab"  "3b ab"  "Ab-b."  ""
Sentences ==
    { <<97>>, <<97, 98, 32, 97, 98>>, <<51, 98, 32, 97, 98>>,
      <<65, 98, 45, 98, 46>>, <<>> }

\* ------------------------------------------------------------------ strings

\* 'abcdefghijklmnopqrstuvwxyz'.split('')
alphabet == [i \in 1..26 |-> 96 + i]

\* JS `a < b` on strings: lexicographic order of the code units.
RECURSIVE StrLess(_, _)
StrLess(a, b) ==
    IF b = <<>> THEN FALSE
    ELSE IF a = <<>> THEN TRUE
    ELSE IF a[1] # b[1] THEN a[1] < b[1]
    ELSE StrLess(Tail(a), Tail(b))

Min(x, y) == IF x < y THEN x ELSE y

\* String.prototype.slice(from, to) for 0 <= from, with to clipped to the length.
slice(s, from, to) == SubSeq(s, Min(from, Len(s)) + 1, Min(to, Len(s)))

\* String.prototype.substr(start, length) for start >= 0.
substr(s, start, length) == slice(s, start, start + length)

\* word.replace(/(\r\n|\n|\r)/gm, '')
StripLineBreaks(s) == SelectSeq(s, LAMBDA c : c \notin {10, 13})

\* The character class [\.,-\/#?!$%\^'"&\*;:{}=\-_`~()] ; ",-\/" is the
\* range from ',' (44) to '/' (47).
Punctuation ==
    (44..47) \cup {35, 63, 33, 36, 37, 94, 39, 34, 38, 42, 59, 58, 123, 125,
                   61, 95, 96, 126, 40, 41}

\* \s restricted to ASCII.
WhiteSpace == {9, 10, 11, 12, 13, 32}

toLowerCase(s) == [i \in DOMAIN s |-> IF s[i] \in 65..90 THEN s[i] + 32 ELSE s[i]]

\* String.prototype.split(/\s+/g): every maximal run of white space separates
\* two fragments; leading or trailing white space yields an empty fragment.
RECURSIVE splitFrom(_, _, _, _)
splitFrom(s, i, cur, out) ==
    IF i > Len(s) THEN Append(out, cur)
    ELSE IF s[i] \in WhiteSpace
         THEN IF i > 1 /\ s[i - 1] \in WhiteSpace
              THEN splitFrom(s, i + 1, cur, out)
              ELSE splitFrom(s, i + 1, <<>>, Append(out, cur))
         ELSE splitFrom(s, i + 1, Append(cur, s[i]), out)

split(s) == splitFrom(s, 1, <<>>, <<>>)

normalize(words) ==
    LET hyphens == [i \in DOMAIN words |-> IF words[i] = 45 THEN 32 ELSE words[i]]
        stripped == SelectSeq(hyphens, LAMBDA c : c \notin Punctuation)
    IN  split(toLowerCase(stripped))

\* isNaN(parseInt(word)) is false: after optional white space and sign, a
\* "0x"/"0X" prefix needs a hex digit after it, anything else a decimal digit.
RECURSIVE skipWhiteSpace(_)
skipWhiteSpace(s) ==
    IF s # <<>> /\ s[1] \in WhiteSpace THEN skipWhiteSpace(Tail(s)) ELSE s

parsesAsInt(word) ==
    LET t == skipWhiteSpace(word)
        u == IF t # <<>> /\ t[1] \in {43, 45} THEN Tail(t) ELSE t
        hex == (48..57) \cup (65..70) \cup (97..102)
    IN  IF Len(u) >= 2 /\ u[1] = 48 /\ u[2] \in {88, 120}
        THEN Len(u) >= 3 /\ u[3] \in hex
        ELSE u # <<>> /\ u[1] \in 48..57

\* ------------------------------------------------------------------ state

VARIABLES
    dict,               \* module-level: word length -> the bucket's words, concatenated
    probabilityModel,   \* module-level: term -> count
    op, arg, ret,       \* the last query made, its argument and its outcome
    pc,                 \* where initialize() stands
    seedLines, trainLines, seedIdx, trainIdx,
    log                 \* what initialize() has done so far, in order

vars == <<dict, probabilityModel, op, arg, ret, pc,
          seedLines, trainLines, seedIdx, trainIdx, log>>

initVars == <<pc, seedLines, trainLines, seedIdx, trainIdx, log>>

\* The outcome of a call: a returned value or a thrown TypeError.
Returned(v) == [threw |-> FALSE, val |-> v]
Thrown == [threw |-> TRUE, val |-> <<>>]

\* ------------------------------------------------------------------ exists

\* `dict[len].length` is evaluated in the var statement, before the
\* `if (!dict[len])` guard: it throws when dict[len] is undefined.
existsThrows(d, word) == Len(word) \notin DOMAIN d

RECURSIVE search(_, _, _, _, _, _)
search(bucket, word, len, low, high, mid) ==
    IF high < low THEN FALSE
    ELSE LET found == substr(bucket, len * mid, len) IN
         IF word = found THEN TRUE
         ELSE IF StrLess(word, found)
              THEN search(bucket, word, len, low, mid - 1, (low + mid - 1) \div 2)
              ELSE search(bucket, word, len, mid + 1, high, (mid + 1 + high) \div 2)

\* The value exists(word) returns when it does not throw.  An empty bucket
\* (only dict[0] can be "") is falsy and yields false.
exists(d, word) ==
    LET len == Len(word) IN
    IF d[len] = <<>> THEN FALSE
    ELSE LET words == Len(d[len]) \div len
         IN  search(d[len], word, len, 0, words - 1, words \div 2)

existsCall(d, word) ==
    IF existsThrows(d, word) THEN Thrown ELSE Returned(exists(d, word))

\* ------------------------------------------------------------------ addWord

addWord(d, line) ==
    LET word == StripLineBreaks(line)
        len == Len(word)
    IN  IF len \notin DOMAIN d \/ d[len] = <<>>
        THEN (len :> word) @@ d
        ELSE IF ~exists(d, word)
             THEN [d EXCEPT ![len] = @ \o word]
             ELSE d

\* ------------------------------------------------------------------ train

\* (probability) ? probability = probability + 1 : probabilityModel[term] = 1;
\* the increment is made to the local variable only.
RECURSIVE trainTerms(_, _, _)
trainTerms(pm, terms, i) ==
    IF i > Len(terms) THEN pm
    ELSE LET term == terms[i] IN
         IF term \in DOMAIN pm /\ pm[term] # 0
         THEN trainTerms(pm, terms, i + 1)
         ELSE trainTerms((term :> 1) @@ pm, terms, i + 1)

train(pm, text) == trainTerms(pm, normalize(text), 1)

\* ------------------------------------------------------------------ suggest

\* for (i = 0; i < input.length; i++) input.slice(0, i) + input.slice(i + 1)
deletes(input) ==
    [k \in 1..Len(input) |->
        slice(input, 0, k - 1) \o slice(input, k, Len(input))]

\* for (i = 0; i < input.length - 1; i++) swap the characters at i and i + 1
transposes(input) ==
    [k \in 1..(IF Len(input) = 0 THEN 0 ELSE Len(input) - 1) |->
        slice(input, 0, k - 1) \o slice(input, k, k + 1)
            \o slice(input, k - 1, k) \o slice(input, k + 1, Len(input))]

\* for every position, for every letter: replace the character by the letter
replacements(input) ==
    [k \in 1..(26 * Len(input)) |->
        LET i == (k - 1) \div 26
            letter == alphabet[((k - 1) % 26) + 1]
        IN  slice(input, 0, i) \o <<letter>> \o slice(input, i + 1, Len(input))]

\* for (i = 0; i <= input.length; i++), for every letter: insert the letter at i
inserts(input) ==
    [k \in 1..(26 * (Len(input) + 1)) |->
        LET i == (k - 1) \div 26
            letter == alphabet[((k - 1) % 26) + 1]
        IN  slice(input, 0, i) \o <<letter>> \o slice(input, i, Len(input))]

\* The candidates in the order suggest() hands them to evaluate().
generated(input) ==
    deletes(input) \o transposes(input) \o replacements(input) \o inserts(input)

\* The object literal pushed onto `candidates`.
Suggestion(term, probability) ==
    [type |-> "object", term |-> term, probability |-> probability]

\* registry[candidate]: set to true exactly when the candidate is pushed.
registry(candidates) == {candidates[i].term : i \in DOMAIN candidates}

\* A variant of evaluate that does not ask the dictionary.
EvaluateNoLexicon(d, pm, acc, candidate, term) ==
    IF acc.threw THEN acc
    ELSE IF /\ candidate # term
            /\ candidate \notin registry(acc.candidates)
            /\ candidate \in DOMAIN pm /\ pm[candidate] # 0
         THEN [acc EXCEPT !.candidates =
                  Append(@, Suggestion(candidate, pm[candidate]))]
         ELSE acc

\* A variant of evaluate with Norvig's smoothing: a term never seen in
\* training counts as seen once instead of being excluded.
EvaluateSmoothed(d, pm, acc, candidate, term) ==
    LET probabilityIndex ==
            IF candidate \in DOMAIN pm /\ pm[candidate] # 0
            THEN pm[candidate] ELSE 1
    IN  IF acc.threw THEN acc
        ELSE IF /\ candidate # term
                /\ candidate \notin registry(acc.candidates)
             THEN IF existsThrows(d, candidate)
                  THEN [acc EXCEPT !.threw = TRUE]
                  ELSE IF exists(d, candidate)
                       THEN [acc EXCEPT !.candidates =
                                Append(@, Suggestion(candidate, probabilityIndex))]
                       ELSE acc
             ELSE acc

\* evaluate(candidate, term): acc holds `candidates` and whether a call of
\* self.exists has thrown (which ends suggest).  The conjunction is
\* evaluated left to right, so exists is only called for a candidate that
\* passed the three tests before it.
Evaluate(d, pm, acc, candidate, term) ==
    IF acc.threw THEN acc
    ELSE IF /\ candidate # term
            /\ candidate \notin registry(acc.candidates)
            /\ candidate \in DOMAIN pm /\ pm[candidate] # 0
         THEN IF existsThrows(d, candidate)
              THEN [acc EXCEPT !.threw = TRUE]
              ELSE IF exists(d, candidate)
                   THEN [acc EXCEPT !.candidates =
                            Append(@, Suggestion(candidate, pm[candidate]))]
                   ELSE acc
         ELSE acc

\* The calls of evaluate for cands[lo..hi], in order (lo <= hi), starting
\* from acc; the range is halved so that the evaluation stays shallow.  Once
\* a call has thrown, the remaining ones are not made.
RECURSIVE evaluateRange(_, _, _, _, _, _, _)
evaluateRange(d, pm, acc, cands, term, lo, hi) ==
    IF lo = hi THEN Evaluate(d, pm, acc, cands[lo], term)
    ELSE LET mid == (lo + hi) \div 2
             first == evaluateRange(d, pm, acc, cands, term, lo, mid)
         IN  IF first.threw THEN first
             ELSE evaluateRange(d, pm, first, cands, term, mid + 1, hi)

evaluateAll(d, pm, acc, cands, term) ==
    IF cands = <<>> THEN acc
    ELSE evaluateRange(d, pm, acc, cands, term, 1, Len(cands))

\* candidates.sort(function(a, b) { return b.probability - a.probability })
\* as a stable sort: x goes behind every element that does not rank below it.
\* (The order of equally probable candidates is the engine's; nothing
\* checked below depends on it.)
RECURSIVE insertByProbability(_, _)
insertByProbability(sorted, x) ==
    IF sorted = <<>> THEN <<x>>
    ELSE IF x.probability - sorted[1].probability > 0
         THEN <<x>> \o sorted
         ELSE <<sorted[1]>> \o insertByProbability(Tail(sorted), x)

RECURSIVE sortByProbability(_)
sortByProbability(candidates) ==
    IF candidates = <<>> THEN <<>>
    ELSE insertByProbability(
             sortByProbability(SubSeq(candidates, 1, Len(candidates) - 1)),
             candidates[Len(candidates)])

\* .map(function(suggestion) { return suggestion; })
refine(sorted) == [i \in DOMAIN sorted |-> sorted[i]]

suggest(d, pm, input) ==
    IF existsThrows(d, input) THEN Thrown
    ELSE IF exists(d, input) THEN Returned(<<>>)
    ELSE LET acc == evaluateAll(d, pm, [threw |-> FALSE, candidates |-> <<>>],
                                generated(input), input)
         IN  IF acc.threw THEN Thrown
             ELSE Returned(refine(sortByProbability(acc.candidates)))

\* ------------------------------------------------------------------ analyze

RECURSIVE analyzeFrom(_, _, _, _, _)
analyzeFrom(d, pm, all, i, analysis) ==
    IF i > Len(all) THEN Returned(analysis)
    ELSE LET word == all[i] IN
         IF existsThrows(d, word) THEN Thrown
         ELSE IF ~exists(d, word) /\ ~parsesAsInt(word)
              THEN LET s == suggest(d, pm, word) IN
                   IF s.threw THEN Thrown
                   ELSE analyzeFrom(d, pm, all, i + 1, (word :> s.val) @@ analysis)
              ELSE analyzeFrom(d, pm, all, i + 1, analysis)

analyze(d, pm, sentence) == analyzeFrom(d, pm, normalize(sentence), 1, <<>>)

\* ------------------------------------------------------------------ instances

\* getInstance() returns `new SpellChecker()`, an object without fields: the
\* dictionary and the model every instance works on are the module's.
instanceDict(self) == dict
instanceModel(self) == probabilityModel

\* ------------------------------------------------------------------ actions

NoQuery == /\ op' = "none"
           /\ arg' = <<>>
           /\ ret' = Returned(<<>>)

BucketHasRoom(line) ==
    LET len == Len(StripLineBreaks(line)) IN
    len \in DOMAIN dict /\ len > 0 => Len(dict[len]) \div len < MaxBucketWords

AddWord(self, line) ==
    /\ BucketHasRoom(line)
    /\ dict' = addWord(instanceDict(self), line)
    /\ NoQuery
    /\ UNCHANGED <<probabilityModel, initVars>>

Train(self, text) ==
    /\ probabilityModel' = train(instanceModel(self), text)
    /\ NoQuery
    /\ UNCHANGED <<dict, initVars>>

Exists(self, word) ==
    /\ op' = "exists"
    /\ arg' = word
    /\ ret' = existsCall(instanceDict(self), word)
    /\ UNCHANGED <<dict, probabilityModel, initVars>>

Suggest(self, word) ==
    /\ op' = "suggest"
    /\ arg' = word
    /\ ret' = suggest(instanceDict(self), instanceModel(self), word)
    /\ UNCHANGED <<dict, probabilityModel, initVars>>

Analyze(self, sentence) ==
    /\ op' = "analyze"
    /\ arg' = sentence
    /\ ret' = analyze(instanceDict(self), instanceModel(self), sentence)
    /\ UNCHANGED <<dict, probabilityModel, initVars>>

Init ==
    /\ dict = <<>>
    /\ probabilityModel = <<>>
    /\ op = "none"
    /\ arg = <<>>
    /\ ret = Returned(<<>>)
    /\ pc = "idle"
    /\ seedLines = <<>>
    /\ trainLines = <<>>
    /\ seedIdx = 0
    /\ trainIdx = 0
    /\ log = <<>>

Next ==
    \E self \in Instances :
        \/ \E line \in SeedLines : AddWord(self, line)
        \/ \E text \in TrainTexts : Train(self, text)
        \/ \E word \in QueryWords : Exists(self, word)
        \/ \E word \in QueryWords : Suggest(self, word)
        \/ \E sentence \in Sentences : Analyze(self, sentence)

Spec == Init /\ [][Next]_vars

\* ------------------------------------------------------------------ initialize

\* The sequences of at most n elements of S.
RECURSIVE SeqsUpTo(_, _)
SeqsUpTo(S, n) ==
    IF n = 0 THEN {<<>>}
    ELSE LET shorter == SeqsUpTo(S, n - 1)
         IN  shorter \cup {Append(q, x) : q \in {r \in shorter : Len(r) = n - 1}, x \in S}

SeedFiles == SeqsUpTo(SeedLines, MaxSeedLines)
TrainingFiles == SeqsUpTo(TrainTexts, MaxTrainLines)

\* initialize(seedPath, trainingDataPath, callback): the first reader is
\* started; nothing has been read yet.
Initialize(self, seedFile, trainingFile) ==
    /\ pc = "idle"
    /\ pc' = "seeding"
    /\ seedLines' = seedFile
    /\ trainLines' = trainingFile
    /\ seedIdx' = 0
    /\ trainIdx' = 0
    /\ log' = <<>>
    /\ NoQuery
    /\ UNCHANGED <<dict, probabilityModel>>

\* The first reader delivers the next seed line: addWord(line), train(line).
SeedLine ==
    /\ pc = "seeding"
    /\ seedIdx < Len(seedLines)
    /\ LET line == seedLines[seedIdx + 1] IN
        /\ dict' = addWord(dict, line)
        /\ probabilityModel' = train(probabilityModel, line)
        /\ log' = Append(log, [step |-> "seed", line |-> line])
    /\ seedIdx' = seedIdx + 1
    /\ NoQuery
    /\ UNCHANGED <<pc, seedLines, trainLines, trainIdx>>

\* The first reader is at its end: its then() callback starts the second.
SeedsThen ==
    /\ pc = "seeding"
    /\ seedIdx = Len(seedLines)
    /\ pc' = "training"
    /\ NoQuery
    /\ UNCHANGED <<dict, probabilityModel, seedLines, trainLines,
                   seedIdx, trainIdx, log>>

\* A second reader that is started beside the first one, not from its then().
TrainingReaderStartedAtOnce == pc \in {"seeding", "training"}

\* The second reader exists only once the then() callback of the first ran.
TrainingReaderStarted == pc = "training"

\* The second reader delivers the next training line: train(line).
TrainLine ==
    /\ TrainingReaderStarted
    /\ trainIdx < Len(trainLines)
    /\ LET line == trainLines[trainIdx + 1] IN
        /\ probabilityModel' = train(probabilityModel, line)
        /\ log' = Append(log, [step |-> "training", line |-> line])
    /\ trainIdx' = trainIdx + 1
    /\ NoQuery
    /\ UNCHANGED <<dict, pc, seedLines, trainLines, seedIdx>>

\* The second reader is at its end: .then(callback).
Ready ==
    /\ TrainingReaderStarted
    /\ trainIdx = Len(trainLines)
    /\ pc' = "done"
    /\ log' = Append(log, [step |-> "callback", line |-> <<>>])
    /\ NoQuery
    /\ UNCHANGED <<dict, probabilityModel, seedLines, trainLines,
                   seedIdx, trainIdx>>

\* initialize() from its call to its callback, with exists() callable at
\* any moment in between.
NextInit ==
    \/ /\ pc = "idle"
       /\ \E self \in Instances, seedFile \in SeedFiles, trainingFile \in TrainingFiles :
              Initialize(self, seedFile, trainingFile)
    \/ SeedLine
    \/ SeedsThen
    \/ TrainLine
    \/ Ready
    \/ \E self \in Instances, word \in QueryWords : Exists(self, word)

SpecInit == Init /\ [][NextInit]_vars

\* ------------------------------------------------------------------ claims

\* The set of the elements of a sequence.
Range(q) == {q[i] : i \in DOMAIN q}

\* The words addWord has been given by initialize(), line breaks stripped.
SeedWords == {StripLineBreaks(seedLines[i]) : i \in DOMAIN seedLines}

\* C1: once initialize() has called back, exists(w) returns true for every
\* seed word w, whatever the order of the seed lines (checked for the
\* non-empty seed words).
C1_SeedWordsExist ==
    (pc = "done" /\ op = "exists" /\ arg # <<>> /\ arg \in SeedWords)
        => (ret.threw = FALSE /\ ret.val = TRUE)

\* C2: exists(word) returns false and raises no error whenever the
\* dictionary holds no bucket for the length of word (checked for the
\* non-empty words).
C2_ExistsFalseWithoutBucket ==
    (op = "exists" /\ arg # <<>> /\ Len(arg) \notin DOMAIN dict)
        => (ret.threw = FALSE /\ ret.val = FALSE)

\* A plain JS string, as an element of a returned array.
PlainString(s) == [type |-> "string", chars |-> s]

\* C3: the array suggest(word) returns holds the accepted candidate words
\* themselves, as plain strings: with "ab" seeded and observed,
\* suggest("ba") is ["ab"].
C3_SuggestReturnsWords ==
    (op = "suggest" /\ ret.threw = FALSE)
        => ret.val = [i \in DOMAIN ret.val |-> PlainString(ret.val[i].term)]

\* The count stored for a token; 0 stands for no entry.
Count(t) == IF t \in DOMAIN probabilityModel THEN probabilityModel[t] ELSE 0

\* How often t occurs in a sequence of tokens.
Occurrences(t, terms) == Cardinality({i \in DOMAIN terms : terms[i] = t})

\* C4: every call train(text) raises the stored count of every token by the
\* number of its occurrences among the normalized tokens of text, so that
\* the count of a token is the total number of its occurrences.
C4_TrainCountsOccurrences ==
    [][\A text \in TrainTexts :
          (\E self \in Instances : Train(self, text))
              => \A t \in Range(normalize(text)) :
                     Count(t)' = Count(t) + Occurrences(t, normalize(text))]_vars

\* C5: analyze(sentence) completes without error, its keys are exactly the
\* normalized tokens that neither exist nor parse as an integer, and each
\* key maps to suggest(token) (checked for the non-empty sentences).
C5_AnalyzeKeys ==
    (op = "analyze" /\ arg # <<>>)
        => /\ ret.threw = FALSE
           /\ \A t \in Range(normalize(arg)) : ~existsThrows(dict, t)
           /\ DOMAIN ret.val =
                  {t \in Range(normalize(arg)) :
                       ~exists(dict, t) /\ ~parsesAsInt(t)}
           /\ \A t \in DOMAIN ret.val :
                  LET s == suggest(dict, probabilityModel, t)
                  IN  s.threw = FALSE /\ ret.val[t] = s.val

\* C6: every candidate suggest(word) returns differs from word, occurs once
\* in the returned list, has a non-zero count in the probability model and
\* exists in the dictionary.
C6_CandidatesAccepted ==
    (op = "suggest" /\ ret.threw = FALSE)
        => \A i \in DOMAIN ret.val :
               LET c == ret.val[i].term IN
               /\ c # arg
               /\ \A j \in DOMAIN ret.val : j # i => ret.val[j].term # c
               /\ c \in DOMAIN probabilityModel
               /\ probabilityModel[c] # 0
               /\ ~existsThrows(dict, c)
               /\ exists(dict, c)

\* suggest("aa") has returned "a", which both deletions of "aa" generate.
C6_Witness ==
    /\ op = "suggest"
    /\ arg = <<97, 97>>
    /\ ret.threw = FALSE
    /\ \E i \in DOMAIN ret.val : ret.val[i].term = <<97>>

SameOutcome(r1, r2) ==
    /\ r1.threw = r2.threw
    /\ r1.threw = FALSE => r1.val = r2.val

\* What the three queries answer on an instance, for every input tried.
Answers(self) ==
    [e |-> [w \in QueryWords |-> existsCall(instanceDict(self), w)],
     s |-> [w \in QueryWords |->
               suggest(instanceDict(self), instanceModel(self), w)],
     a |-> [x \in Sentences |->
               analyze(instanceDict(self), instanceModel(self), x)]]

\* C8: addWord or train on one instance leaves what exists, suggest and
\* analyze answer on the other instance unchanged (checked for the non-empty
\* words and sentences).
C8_InstancesDoNotInterfere ==
    [][\A i \in Instances :
          (\/ \E line \in SeedLines : AddWord(i, line)
           \/ \E text \in TrainTexts : Train(i, text))
              => \A j \in Instances \ {i} :
                     /\ \A w \in QueryWords \ {<<>>} :
                            /\ SameOutcome(Answers(j).e[w], Answers(j)'.e[w])
                            /\ SameOutcome(Answers(j).s[w], Answers(j)'.s[w])
                     /\ \A x \in Sentences \ {<<>>} :
                            SameOutcome(Answers(j).a[x], Answers(j)'.a[x])]_vars

\* The words of the bucket for length len > 0, in the order stored.
BucketWords(len) ==
    [k \in 1..(Len(dict[len]) \div len) |-> substr(dict[len], len * (k - 1), len)]

\* C9: after any sequence of addWord calls, every length bucket holds each
\* word at most once.
C9_NoDuplicates ==
    \A len \in DOMAIN dict :
        len > 0 => \A i, j \in DOMAIN BucketWords(len) :
                       i # j => BucketWords(len)[i] # BucketWords(len)[j]

\* The lines of the log's entries of one kind, in order.
Logged(step) ==
    LET entries == SelectSeq(log, LAMBDA e : e.step = step)
    IN  [i \in DOMAIN entries |-> entries[i].line]

\* C10: every seed line is inserted and observed before any training line is
\* observed, and the callback is invoked only after every seed line and
\* every training line has been processed.
C10_SeedsThenTrainingThenCallback ==
    /\ \A i, j \in DOMAIN log :
           (log[i].step = "training" /\ log[j].step = "seed") => j < i
    /\ (\E i \in DOMAIN log : log[i].step = "training")
           => Logged("seed") = seedLines
    /\ \A i \in DOMAIN log :
           log[i].step = "callback"
               => /\ i = Len(log)
                  /\ Logged("seed") = seedLines
                  /\ Logged("training") = trainLines

\* initialize() has called back after two seed lines and a training line.
C10_Witness ==
    /\ pc = "done"
    /\ Len(seedLines) = 2
    /\ Len(trainLines) = 1
    /\ log[Len(log)].step = "callback"

====
